---- MODULE Spec2Model ----
(***************************************************************************)
(* Model of the pivot engine of src/pivot.ts: createPivotTable and its     *)
(* helpers getUniqueValues, matchesGroup and aggregateValues, called by    *)
(* the PivotTable component (src/PivotTable.tsx); and of the loading of    *)
(* the records around it: the App component (src/src/App.tsx), its         *)
(* interval-based variant (src/vite.config.ts) and the postMessage         *)
(* fallback of fetchPivotData (src/unnamed/part_000).                      *)
(*                                                                         *)
(* JavaScript values are modelled as follows.                              *)
(*   - a string is a sequence of one-character strings, so that joining,   *)
(*     comparing and parsing are computed character by character;          *)
(*   - a number is a pair <<n, d>>: the rational n/d when d > 0 (in lowest *)
(*     terms), NaN when <<0, 0>>, +Infinity when <<1, 0>> and -Infinity    *)
(*     when <<-1, 0>>.  Rounding of IEEE doubles is not modelled: every    *)
(*     finite number of the bounded inputs is exactly representable;       *)
(*   - a value of a record field is [t, v] with t one of "undefined",      *)
(*     "string", "number"; a field absent from a record reads as           *)
(*     undefined, exactly as item[field] does.                             *)
(***************************************************************************)
EXTENDS Integers, Sequences, FiniteSets, TLC

VARIABLES
  \* PivotTable: the arguments of createPivotTable, what it returned, and
  \* whether the call has been made
  data, config, result, pc,
  \* window.monday, as the scripts of the page leave it
  monday,
  \* App: the data, dataSource and isLoading states, the runs of fetchData,
  \* the attempts counter and the pending setTimeout of waitForSDKAndFetch
  appData, dataSource, isLoading, runs, attempts, pollTimer,
  \* the variant of App: the checkSDK interval, the 5-second timeout and the
  \* time since the mount, in periods of the interval
  checkInterval, sdkTimeout, clock,
  \* the postMessage fallback of fetchPivotData: the returned promise, the
  \* 10-second timeout, the message listener, the pending setTimeout of
  \* checkSDK, the number of checkSDK calls, and the monday.api calls issued
  \* and outstanding
  promise, timeout, listener, checkTimer, checks, apiCalls, apiPending

pivotVars == <<data, config, result, pc>>

appVars == <<appData, dataSource, isLoading, runs, attempts, pollTimer>>

variantVars == <<checkInterval, sdkTimeout, clock>>

fallbackVars ==
  <<promise, timeout, listener, checkTimer, checks, apiCalls, apiPending>>

vars == <<pivotVars, monday, appVars, variantVars, fallbackVars>>

----------------------------------------------------------------------------
(* Bounds *)

MaxRecords == 3

----------------------------------------------------------------------------
(* The page around the pivot table *)

\* The values of window.monday: not set, set to an object whose api is not a
\* function, set to the loaded SDK
MondayStates == {"undefined", "object", "sdk"}

\* The states of the parts of the page that a specification leaves alone
NoPivot ==
  /\ data = <<>>
  /\ config = [rows |-> <<>>, columns |-> <<>>, values |-> <<>>]
  /\ result = [data |-> <<>>, rowHeaders |-> <<>>, columnHeaders |-> <<>>]
  /\ pc = "unused"

NoApp ==
  /\ appData = "sampleData"
  /\ dataSource = "sample"
  /\ isLoading = TRUE
  /\ runs = <<>>
  /\ attempts = 0
  /\ pollTimer = FALSE

NoVariant ==
  /\ checkInterval = FALSE
  /\ sdkTimeout = FALSE
  /\ clock = 0

NoFallback ==
  /\ promise = "none"
  /\ timeout = FALSE
  /\ listener = FALSE
  /\ checkTimer = FALSE
  /\ checks = 0
  /\ apiCalls = 0
  /\ apiPending = 0

\* The PivotTable component alone, outside the page of App
NoPage == monday = "undefined" /\ NoApp /\ NoVariant /\ NoFallback

pageVars == <<monday, appVars, variantVars, fallbackVars>>

----------------------------------------------------------------------------
(* JavaScript strings *)

\* UTF-16 code units of the characters that occur in the bounded inputs.
CodeUnit ==
  (" " :> 32) @@ ("+" :> 43) @@ ("-" :> 45) @@ ("." :> 46) @@ ("/" :> 47) @@
  ("0" :> 48) @@ ("1" :> 49) @@ ("2" :> 50) @@ ("3" :> 51) @@ ("4" :> 52) @@
  ("5" :> 53) @@ ("6" :> 54) @@ ("7" :> 55) @@ ("8" :> 56) @@ ("9" :> 57) @@
  ("A" :> 65) @@ ("B" :> 66) @@ ("I" :> 73) @@ ("N" :> 78) @@ ("X" :> 88) @@
  ("Y" :> 89) @@
  ("a" :> 97) @@ ("d" :> 100) @@ ("e" :> 101) @@ ("f" :> 102) @@
  ("i" :> 105) @@ ("n" :> 110) @@ ("t" :> 116) @@ ("u" :> 117) @@
  ("y" :> 121)

Digits == <<"0", "1", "2", "3", "4", "5", "6", "7", "8", "9">>

IsDigit(c) == \E k \in 1..10 : Digits[k] = c

DigitValue(c) == (CHOOSE k \in 1..10 : Digits[k] = c) - 1

\* x < y of two strings: the first differing code unit decides, and a proper
\* prefix is smaller.
StrLess(x, y) ==
  \E k \in 1..Len(y) :
    /\ \A m \in 1..(k - 1) : m <= Len(x) /\ x[m] = y[m]
    /\ \/ k = Len(x) + 1
       \/ k <= Len(x) /\ CodeUnit[x[k]] < CodeUnit[y[k]]

----------------------------------------------------------------------------
(* JavaScript numbers *)

Abs(n) == IF n < 0 THEN -n ELSE n

RECURSIVE Gcd(_, _)
Gcd(a, b) == IF b = 0 THEN a ELSE Gcd(b, a % b)

NaN == <<0, 0>>
PosInfinity == <<1, 0>>
NegInfinity == <<-1, 0>>
Zero == <<0, 1>>

Int2Num(n) == <<n, 1>>

IsNaN(x) == x = NaN
IsFinite(x) == x[2] > 0

\* n/d in lowest terms, d > 0.
Reduce(n, d) ==
  LET g == Gcd(Abs(n), d)
  IN  <<n \div g, d \div g>>

\* x + y
NumAdd(x, y) ==
  IF IsNaN(x) \/ IsNaN(y) THEN NaN
  ELSE IF ~IsFinite(x) /\ ~IsFinite(y) THEN (IF x = y THEN x ELSE NaN)
  ELSE IF ~IsFinite(x) THEN x
  ELSE IF ~IsFinite(y) THEN y
  ELSE Reduce(x[1] * y[2] + y[1] * x[2], x[2] * y[2])

\* A division that drops the fraction of the quotient
NumDivLenFloor(x, k) ==
  IF ~IsFinite(x) \/ k = 0 THEN NaN ELSE <<x[1] \div (x[2] * k), 1>>

\* x / k for a non-negative integer k (an array length)
NumDivLen(x, k) ==
  IF IsNaN(x) THEN NaN
  ELSE IF ~IsFinite(x) THEN x
  ELSE IF k = 0 THEN (IF x[1] = 0 THEN NaN
                      ELSE IF x[1] > 0 THEN PosInfinity ELSE NegInfinity)
  ELSE Reduce(x[1], x[2] * k)

\* x < y for two numbers, false when either is NaN
NumLess(x, y) ==
  IF IsNaN(x) \/ IsNaN(y) THEN FALSE
  ELSE IF ~IsFinite(x) THEN x = NegInfinity /\ y # NegInfinity
  ELSE IF ~IsFinite(y) THEN y = PosInfinity
  ELSE x[1] * y[2] < y[1] * x[2]

RECURSIVE NatToString(_)
NatToString(n) ==
  IF n < 10 THEN <<Digits[n + 1]>>
  ELSE NatToString(n \div 10) \o <<Digits[(n % 10) + 1]>>

\* Number::toString of an integer, NaN or an infinity
NumberToString(x) ==
  IF IsNaN(x) THEN <<"N", "a", "N">>
  ELSE IF x = PosInfinity THEN <<"I", "n", "f", "i", "n", "i", "t", "y">>
  ELSE IF x = NegInfinity
    THEN <<"-", "I", "n", "f", "i", "n", "i", "t", "y">>
  ELSE IF x[1] < 0 THEN <<"-">> \o NatToString(-x[1])
  ELSE NatToString(x[1])

----------------------------------------------------------------------------
(* Values of record fields *)

Undefined == [t |-> "undefined", v |-> <<>>]
Str(s) == [t |-> "string", v |-> s]
Num(n) == [t |-> "number", v |-> Int2Num(n)]

\* ToString(value) of the language
JSToString(x) ==
  IF x.t = "undefined" THEN <<"u", "n", "d", "e", "f", "i", "n", "e", "d">>
  ELSE IF x.t = "number" THEN NumberToString(x.v)
  ELSE x.v

\* join with every element, undefined included, given its ToString
RECURSIVE joinToString(_, _)
joinToString(arr, separator) ==
  IF Len(arr) = 0 THEN <<>>
  ELSE IF Len(arr) = 1 THEN JSToString(arr[1])
  ELSE joinToString(SubSeq(arr, 1, Len(arr) - 1), separator)
         \o separator \o JSToString(arr[Len(arr)])

\* Array.prototype.join: undefined elements give the empty string, every other
\* element its ToString; the separator goes between consecutive elements.
RECURSIVE join(_, _)
join(arr, separator) ==
  IF Len(arr) = 0 THEN <<>>
  ELSE LET k == Len(arr)
           element == arr[k]
           next == IF element.t = "undefined" THEN <<>> ELSE JSToString(element)
           R == join(SubSeq(arr, 1, k - 1), separator)
       IN  IF k = 1 THEN next ELSE R \o separator \o next

\* Longest prefix of s made of decimal digits
RECURSIVE DigitPrefix(_)
DigitPrefix(s) ==
  IF Len(s) > 0 /\ IsDigit(s[1]) THEN <<s[1]>> \o DigitPrefix(Tail(s))
  ELSE <<>>

RECURSIVE DigitsToNat(_)
DigitsToNat(s) ==
  IF Len(s) = 0 THEN 0
  ELSE 10 * DigitsToNat(SubSeq(s, 1, Len(s) - 1)) + DigitValue(s[Len(s)])

RECURSIVE Pow10(_)
Pow10(k) == IF k = 0 THEN 1 ELSE 10 * Pow10(k - 1)

RECURSIVE TrimStart(_)
TrimStart(s) == IF Len(s) > 0 /\ s[1] = " " THEN TrimStart(Tail(s)) ELSE s

StartsWith(s, p) == Len(s) >= Len(p) /\ SubSeq(s, 1, Len(p)) = p

\* parseFloat: ToString of the argument, leading white space skipped, then the
\* longest prefix that is a decimal literal (sign, digits, fraction, or
\* Infinity); NaN when there is none.  Exponents do not occur in the inputs.
parseFloat(x) ==
  LET inputString == JSToString(x)
      trimmed == TrimStart(inputString)
      signed == Len(trimmed) > 0 /\ trimmed[1] \in {"+", "-"}
      sign == IF signed /\ trimmed[1] = "-" THEN -1 ELSE 1
      body == IF signed THEN Tail(trimmed) ELSE trimmed
      intPart == DigitPrefix(body)
      rest == SubSeq(body, Len(intPart) + 1, Len(body))
      fracPart == IF Len(rest) > 0 /\ rest[1] = "." THEN DigitPrefix(Tail(rest))
                  ELSE <<>>
  IN  IF StartsWith(body, <<"I", "n", "f", "i", "n", "i", "t", "y">>)
        THEN <<sign, 0>>
      ELSE IF Len(intPart) + Len(fracPart) = 0 THEN NaN
      ELSE Reduce(sign * (DigitsToNat(intPart) * Pow10(Len(fracPart))
                          + DigitsToNat(fracPart)),
                  Pow10(Len(fracPart)))

\* The parsed number kept as it is, without || 0
OrZeroMissing(x) == x

\* x || 0 for a number x: NaN and 0 are falsy
OrZero(x) == IF IsNaN(x) \/ x = Zero THEN Zero ELSE x

----------------------------------------------------------------------------
(* src/pivot.ts *)

Separator == <<" ", "-", " ">>

Aggregations == {"sum", "count", "avg", "min", "max"}

\* The field values taken in the reverse of the configured order
FieldValuesReversed(item, fields) ==
  [k \in 1..Len(fields) |-> item[fields[Len(fields) + 1 - k]]]

\* fields.map(field => item[field])
FieldValues(item, fields) == [k \in 1..Len(fields) |-> item[fields[k]]]

\* An add that appends the value whether or not the set holds it
SetAddAlways(set, value) == Append(set, value)

\* Set.prototype.add on a set kept in insertion order
SetAdd(set, value) ==
  IF \E k \in 1..Len(set) : set[k] = value THEN set ELSE Append(set, value)

\* A sort step with the comparison the wrong way round
RECURSIVE SortInsertDescending(_, _)
SortInsertDescending(sorted, x) ==
  IF Len(sorted) = 0 THEN <<x>>
  ELSE IF StrLess(sorted[1], x) THEN <<x>> \o sorted
  ELSE <<sorted[1]>> \o SortInsertDescending(Tail(sorted), x)

\* One step of the default sort: x goes after the elements that are not
\* greater than it (comparison of strings by code units).
RECURSIVE SortInsert(_, _)
SortInsert(sorted, x) ==
  IF Len(sorted) = 0 THEN <<x>>
  ELSE IF StrLess(x, sorted[1]) THEN <<x>> \o sorted
  ELSE <<sorted[1]>> \o SortInsert(Tail(sorted), x)

\* A sort that leaves the array in the order it has
sortKeepOrder(arr) == arr

\* Array.prototype.sort without a comparator
RECURSIVE sort(_)
sort(arr) ==
  IF Len(arr) = 0 THEN <<>>
  ELSE SortInsert(sort(SubSeq(arr, 1, Len(arr) - 1)), arr[Len(arr)])

\* A set of keys that holds the empty key before any record is read
RECURSIVE UniqueValuesSetSeeded(_, _)
UniqueValuesSetSeeded(items, fields) ==
  IF Len(items) = 0 THEN << <<>> >>
  ELSE LET item == items[Len(items)]
           value == join(FieldValues(item, fields), Separator)
       IN  SetAdd(UniqueValuesSetSeeded(SubSeq(items, 1, Len(items) - 1),
                                        fields),
                  value)

RECURSIVE UniqueValuesSet(_, _)
UniqueValuesSet(items, fields) ==
  IF Len(items) = 0 THEN <<>>
  ELSE LET item == items[Len(items)]
           value == join(FieldValues(item, fields), Separator)
       IN  SetAdd(UniqueValuesSet(SubSeq(items, 1, Len(items) - 1), fields),
                  value)

\* The unique values of the first field alone
getUniqueValuesFirstField(items, fields) ==
  sort(UniqueValuesSet(items,
                       IF Len(fields) = 0 THEN <<>> ELSE <<fields[1]>>))

getUniqueValues(items, fields) == sort(UniqueValuesSet(items, fields))

\* A membership test that rejects every record when there is no field
matchesGroupNonEmpty(item, fields, groupValue) ==
  LET itemValue == join(FieldValues(item, fields), Separator)
  IN  Len(fields) > 0 /\ itemValue = groupValue

\* A membership test that accepts every group whose label starts with the key
matchesGroupPrefix(item, fields, groupValue) ==
  LET itemValue == join(FieldValues(item, fields), Separator)
  IN  StartsWith(groupValue, itemValue)

matchesGroup(item, fields, groupValue) ==
  LET itemValue == join(FieldValues(item, fields), Separator)
  IN  itemValue = groupValue

\* data.flatMap(item => valueFields.map(field => parseFloat(item[field]) || 0))
RECURSIVE FlatValues(_, _)
FlatValues(items, valueFields) ==
  IF Len(items) = 0 THEN <<>>
  ELSE [k \in 1..Len(valueFields) |->
          OrZero(parseFloat(items[1][valueFields[k]]))]
       \o FlatValues(Tail(items), valueFields)

\* A reduce whose callback returns val in place of sum + val
ReduceLast(values) ==
  IF Len(values) = 0 THEN Zero ELSE values[Len(values)]

\* values.reduce((sum, val) => sum + val, 0)
RECURSIVE ReduceSum(_)
ReduceSum(values) ==
  IF Len(values) = 0 THEN Zero
  ELSE NumAdd(ReduceSum(SubSeq(values, 1, Len(values) - 1)),
              values[Len(values)])

\* A minimum that starts from 0 in place of +Infinity
RECURSIVE MathMinFromZero(_)
MathMinFromZero(values) ==
  IF Len(values) = 0 THEN Zero
  ELSE LET lowest == MathMinFromZero(SubSeq(values, 1, Len(values) - 1))
           number == values[Len(values)]
       IN  IF NumLess(number, lowest) THEN number ELSE lowest

\* Math.min(...values): +Infinity for no argument, NaN when an argument is NaN
RECURSIVE MathMin(_)
MathMin(values) ==
  IF Len(values) = 0 THEN PosInfinity
  ELSE LET lowest == MathMin(SubSeq(values, 1, Len(values) - 1))
           number == values[Len(values)]
       IN  IF IsNaN(lowest) \/ IsNaN(number) THEN NaN
           ELSE IF NumLess(number, lowest) THEN number ELSE lowest

\* Math.max(...values): -Infinity for no argument, NaN when an argument is NaN
RECURSIVE MathMax(_)
MathMax(values) ==
  IF Len(values) = 0 THEN NegInfinity
  ELSE LET highest == MathMax(SubSeq(values, 1, Len(values) - 1))
           number == values[Len(values)]
       IN  IF IsNaN(highest) \/ IsNaN(number) THEN NaN
           ELSE IF NumLess(highest, number) THEN number ELSE highest

\* The switch with count as the number of distinct values
AggregateSwitchDistinct(values, aggregation) ==
  CASE aggregation = "sum" -> ReduceSum(values)
    [] aggregation = "count" ->
         Int2Num(Cardinality({ values[k] : k \in 1..Len(values) }))
    [] aggregation = "avg" -> NumDivLen(ReduceSum(values), Len(values))
    [] aggregation = "min" -> MathMin(values)
    [] aggregation = "max" -> MathMax(values)
    [] OTHER -> ReduceSum(values)

\* switch (aggregation) over the value list
AggregateSwitch(values, aggregation) ==
  CASE aggregation = "sum" -> ReduceSum(values)
    [] aggregation = "count" -> Int2Num(Len(values))
    [] aggregation = "avg" -> NumDivLen(ReduceSum(values), Len(values))
    [] aggregation = "min" -> MathMin(values)
    [] aggregation = "max" -> MathMax(values)
    [] OTHER -> ReduceSum(values)

\* aggregateValues without the early return for no record
aggregateValuesUnguarded(items, valueFields, aggregation) ==
  AggregateSwitch(FlatValues(items, valueFields), aggregation)

\* aggregateValues returning 0 for no value field as it does for no record
aggregateValuesGuardFields(items, valueFields, aggregation) ==
  IF Len(items) = 0 \/ Len(valueFields) = 0 THEN Zero
  ELSE AggregateSwitch(FlatValues(items, valueFields), aggregation)

aggregateValues(items, valueFields, aggregation) ==
  IF Len(items) = 0 THEN Zero
  ELSE AggregateSwitch(FlatValues(items, valueFields), aggregation)

\* The filter cut to the first record it accepts
filteredDataFirstMatch(items, rows, columns, rowHeader, columnHeader) ==
  LET accepted == SelectSeq(items, LAMBDA item :
                    matchesGroup(item, rows, rowHeader)
                      /\ matchesGroup(item, columns, columnHeader))
  IN  IF Len(accepted) = 0 THEN <<>> ELSE <<accepted[1]>>

\* The filter with || in place of &&
filteredDataEitherAxis(items, rows, columns, rowHeader, columnHeader) ==
  SelectSeq(items, LAMBDA item :
    matchesGroup(item, rows, rowHeader)
      \/ matchesGroup(item, columns, columnHeader))

\* The filter without the column condition
filteredDataRowOnly(items, rows, columns, rowHeader, columnHeader) ==
  SelectSeq(items, LAMBDA item : matchesGroup(item, rows, rowHeader))

\* data.filter(item => matchesGroup(item, rows, rowHeader) &&
\*                     matchesGroup(item, columns, columnHeader))
filteredData(items, rows, columns, rowHeader, columnHeader) ==
  SelectSeq(items, LAMBDA item :
    matchesGroup(item, rows, rowHeader)
      /\ matchesGroup(item, columns, columnHeader))

\* The destructuring with count as the default
AggregationOfDefaultCount(cfg) ==
  IF "aggregation" \in DOMAIN cfg THEN cfg.aggregation ELSE "count"

\* const { rows, columns, values, aggregation = 'sum' } = config
AggregationOf(cfg) ==
  IF "aggregation" \in DOMAIN cfg THEN cfg.aggregation ELSE "sum"

\* A result for no data whose matrix holds one empty row
EmptyResultOneRow ==
  [data |-> << <<>> >>, rowHeaders |-> <<>>, columnHeaders |-> <<>>]

\* The result returned for no data
EmptyResult == [data |-> <<>>, rowHeaders |-> <<>>, columnHeaders |-> <<>>]

\* The inner loop stopping one column short
PivotRowShort(items, cfg, rowHeader, columnHeaders) ==
  [j \in 1..(Len(columnHeaders) - 1) |->
    aggregateValues(
      filteredData(items, cfg.rows, cfg.columns, rowHeader, columnHeaders[j]),
      cfg.values, AggregationOf(cfg))]

\* The inner loop: one cell pushed per column header
PivotRow(items, cfg, rowHeader, columnHeaders) ==
  [j \in 1..Len(columnHeaders) |->
    aggregateValues(
      filteredData(items, cfg.rows, cfg.columns, rowHeader, columnHeaders[j]),
      cfg.values, AggregationOf(cfg))]

\* The arguments after a call that reverses the record list in place
ArgumentsAfterReverse(items, cfg) ==
  [data |-> [k \in 1..Len(items) |-> items[Len(items) + 1 - k]],
   config |-> cfg]

\* The arguments after the call.  The record list and the field lists are
\* only read (forEach, map, filter, flatMap, item[field]); the one in-place
\* operation, sort, is applied to the copy made by Array.from, and add and
\* push write to the Set and the arrays created inside the call.
ArgumentsAfter(items, cfg) == [data |-> items, config |-> cfg]

\* A table whose column headers are taken from the row fields
createPivotTableRowKeysTwice(items, cfg) ==
  IF Len(items) = 0 THEN EmptyResult
  ELSE
    LET rowHeaders == getUniqueValues(items, cfg.rows)
        columnHeaders == getUniqueValues(items, cfg.rows)
        pivotData ==
          [i \in 1..Len(rowHeaders) |->
            PivotRow(items, cfg, rowHeaders[i], columnHeaders)]
    IN  [data |-> pivotData, rowHeaders |-> rowHeaders,
         columnHeaders |-> columnHeaders]

createPivotTable(items, cfg) ==
  IF Len(items) = 0 THEN EmptyResult
  ELSE
    LET rowHeaders == getUniqueValues(items, cfg.rows)
        columnHeaders == getUniqueValues(items, cfg.columns)
        pivotData ==
          [i \in 1..Len(rowHeaders) |->
            PivotRow(items, cfg, rowHeaders[i], columnHeaders)]
    IN  [data |-> pivotData, rowHeaders |-> rowHeaders,
         columnHeaders |-> columnHeaders]

----------------------------------------------------------------------------
(* Bounded inputs *)

FieldNames == {"s", "o", "b"}

Rec(s, o, b) == [s |-> s, o |-> o, b |-> b]

\* The records the input lists are drawn from: string and numeric group
\* values, an absent group field, numeric, negative, absent and non-numeric
\* value fields.
SampleRecords ==
  { Rec(Str(<<"A">>), Str(<<"X">>), Num(10)),
    Rec(Str(<<"A">>), Str(<<"Y">>), Num(20)),
    Rec(Str(<<"B">>), Str(<<"X">>), Num(5)),
    Rec(Str(<<"A">>), Undefined, Undefined),
    Rec(Num(2), Str(<<"X">>), Str(<<"n", "/", "a">>)),
    Rec(Num(10), Str(<<"Y">>), Num(-3)) }

RecordLists == UNION { [1..n -> SampleRecords] : n \in 0..MaxRecords }

RowFieldLists == { <<>>, <<"s">>, <<"s", "o">>, <<"o", "s">> }
ColumnFieldLists == { <<>>, <<"o">>, <<"s">> }
ValueFieldLists == { <<>>, <<"b">>, <<"b", "s">> }

Configs ==
  [rows : RowFieldLists, columns : ColumnFieldLists, values : ValueFieldLists]
    \cup [rows : RowFieldLists, columns : ColumnFieldLists,
          values : ValueFieldLists, aggregation : Aggregations]

NoResult == [data |-> <<>>, rowHeaders |-> <<>>, columnHeaders |-> <<>>]

----------------------------------------------------------------------------
(* The caller: PivotTable renders createPivotTable(data, config) *)

Init ==
  /\ data \in RecordLists
  /\ config \in Configs
  /\ result = NoResult
  /\ pc = "ready"
  /\ NoPage

PivotTable ==
  /\ pc = "ready"
  /\ result' = createPivotTable(data, config)
  /\ pc' = "done"
  /\ data' = ArgumentsAfter(data, config).data
  /\ config' = ArgumentsAfter(data, config).config
  /\ UNCHANGED pageVars

Next == PivotTable

Spec == Init /\ [][Next]_vars

\* Records whose keys coincide although their field values differ: a value
\* that contains the separator, and the number 1 beside the string "1".
KeyRecords ==
  { Rec(Num(1), Str(<<"X", " ", "-", " ", "Y">>), Num(1)),
    Rec(Str(<<"1", " ", "-", " ", "X">>), Str(<<"Y">>), Num(2)),
    Rec(Str(<<"1">>), Str(<<"X">>), Num(4)),
    Rec(Num(1), Str(<<"X">>), Num(8)),
    Rec(Str(<<"A">>), Str(<<"X">>), Num(16)) }

InitKeys ==
  /\ data \in UNION { [1..n -> KeyRecords] : n \in 0..MaxRecords }
  /\ config \in Configs
  /\ result = NoResult
  /\ pc = "ready"
  /\ NoPage

SpecKeys == InitKeys /\ [][Next]_vars

\* A smaller pool of records for the properties that compare the table with
\* the table of another call: two row groups and three column groups, one of
\* them of records without the field.
MaxRelated == 3

RelatedRecords ==
  { Rec(Str(<<"A">>), Str(<<"X">>), Num(10)),
    Rec(Str(<<"B">>), Str(<<"Y">>), Num(20)),
    Rec(Str(<<"A">>), Undefined, Undefined) }

InitRelated ==
  /\ data \in UNION { [1..n -> RelatedRecords] : n \in 0..MaxRelated }
  /\ config \in Configs
  /\ result = NoResult
  /\ pc = "ready"
  /\ NoPage

SpecRelated == InitRelated /\ [][Next]_vars

----------------------------------------------------------------------------
(* The App component: fetchData and waitForSDKAndFetch *)

\* const maxAttempts = 50
maxAttempts == 50

\* The record lists fetchPivotData resolves with
FetchedData == {"mondayData"}

\* window.monday && typeof window.monday.api === 'function'
isMondaySDKAvailable(m) == m = "sdk"

\* A script of the page sets window.monday or completes it.
MondayLoads ==
  /\ \/ monday = "undefined" /\ monday' \in {"object", "sdk"}
     \/ monday = "object" /\ monday' = "sdk"
  /\ UNCHANGED <<pivotVars, appVars, variantVars, fallbackVars>>

\* The first await of fetchData: monday.initialize when the SDK is there,
\* otherwise the import of fetchPivotData (the two branches without SDK
\* differ in the board id alone).
FirstAwait(m) == IF isMondaySDKAvailable(m) THEN "initialize" ELSE "import"

\* fetchData() up to its first await: setIsLoading(true) and the choice of
\* the branch.  A run of fetchData is its position and the error it caught.
StartFetchData ==
  /\ isLoading' = TRUE
  /\ runs' = Append(runs, [pc |-> FirstAwait(monday), error |-> "none"])

\* A catch block that reports the live source
dataSourceOnErrorMonday(error) == "monday"

\* catch (error) { setDataSource('sample') }
dataSourceOnError(error) == "sample"

\* The awaited promise of run i is fulfilled: the run goes on to next.
Fulfilled(i, next) ==
  /\ runs' = [runs EXCEPT ![i].pc = next]
  /\ UNCHANGED <<appData, dataSource, isLoading>>

\* The awaited promise of run i is rejected: the catch block runs.
Rejected(i, cause) ==
  /\ dataSource' = dataSourceOnError(cause)
  /\ runs' = [runs EXCEPT ![i] = [pc |-> "finally", error |-> cause]]
  /\ UNCHANGED <<appData, isLoading>>

\* await monday.initialize({ listen: true })
InitializeSettles(i) ==
  /\ runs[i].pc = "initialize"
  /\ Fulfilled(i, "context") \/ Rejected(i, "initialize")

\* await monday.get('context'); the inner catch rethrows
ContextSettles(i) ==
  /\ runs[i].pc = "context"
  /\ Fulfilled(i, "import") \/ Rejected(i, "context")

\* await import('../index')
ImportSettles(i) ==
  /\ runs[i].pc = "import"
  /\ Fulfilled(i, "fetchPivotData") \/ Rejected(i, "import")

\* await fetchPivotData(boardId), then setData(mondayData)
FetchPivotDataSettles(i) ==
  /\ runs[i].pc = "fetchPivotData"
  /\ \/ /\ appData' \in FetchedData
        /\ runs' = [runs EXCEPT ![i].pc = "setDataSource"]
        /\ UNCHANGED <<dataSource, isLoading>>
     \/ Rejected(i, "fetchPivotData")

\* setDataSource('monday'), the state update after setData
SetDataSource(i) ==
  /\ runs[i].pc = "setDataSource"
  /\ dataSource' = "monday"
  /\ runs' = [runs EXCEPT ![i].pc = "finally"]
  /\ UNCHANGED <<appData, isLoading>>

\* finally { setIsLoading(false) }
Finally(i) ==
  /\ runs[i].pc = "finally"
  /\ isLoading' = FALSE
  /\ runs' = [runs EXCEPT ![i].pc = "done"]
  /\ UNCHANGED <<appData, dataSource>>

\* A continuation of a run of fetchData
FetchDataStep ==
  /\ \E i \in 1..Len(runs) :
       \/ InitializeSettles(i)
       \/ ContextSettles(i)
       \/ ImportSettles(i)
       \/ FetchPivotDataSettles(i)
       \/ SetDataSource(i)
       \/ Finally(i)
  /\ UNCHANGED <<attempts, pollTimer>>
  /\ UNCHANGED <<pivotVars, monday, variantVars, fallbackVars>>

\* A poll that gives up one attempt late
PollOutcomeLate(m, n) ==
  IF isMondaySDKAvailable(m) THEN "fetch"
  ELSE IF n > maxAttempts THEN "fetch"
  ELSE "retry"

\* The branch of waitForSDKAndFetch at attempt n
PollOutcome(m, n) ==
  IF isMondaySDKAvailable(m) THEN "fetch"
  ELSE IF n >= maxAttempts THEN "fetch"
  ELSE "retry"

waitForSDKAndFetch ==
  /\ attempts' = attempts + 1
  /\ IF PollOutcome(monday, attempts + 1) = "fetch"
       THEN StartFetchData /\ pollTimer' = FALSE
       ELSE pollTimer' = TRUE /\ UNCHANGED <<isLoading, runs>>
  /\ UNCHANGED <<appData, dataSource>>
  /\ UNCHANGED <<pivotVars, monday, variantVars, fallbackVars>>

\* useEffect(..., []): the effect of the mount calls waitForSDKAndFetch()
Mount ==
  /\ attempts = 0
  /\ waitForSDKAndFetch

\* setTimeout(waitForSDKAndFetch, 100) fires
PollTimerFires ==
  /\ pollTimer
  /\ waitForSDKAndFetch

InitApp ==
  /\ NoPivot
  /\ monday \in MondayStates
  /\ NoApp
  /\ NoVariant
  /\ NoFallback

NextApp == MondayLoads \/ Mount \/ PollTimerFires \/ FetchDataStep

SpecApp == InitApp /\ [][NextApp]_vars

\* The effect runs after the mount and a timer that is set fires: the
\* browser's event loop leaves neither pending for ever.
SpecAppFair == SpecApp /\ WF_vars(Mount) /\ WF_vars(PollTimerFires)

----------------------------------------------------------------------------
(* The variant of App that waits with setInterval and a timeout *)

\* setInterval(..., 100)
IntervalMs == 100

\* setTimeout(..., 5000)
TimeoutMs == 5000

\* The periods of the interval that pass before the timeout is due
TimeoutPeriods == TimeoutMs \div IntervalMs

\* The effect of the mount: fetchData() at once when window.monday is set,
\* otherwise the checkSDK interval and the timeout are started.
MountVariant ==
  /\ runs = <<>>
  /\ ~checkInterval
  /\ ~sdkTimeout
  /\ IF monday # "undefined"
       THEN StartFetchData /\ UNCHANGED <<checkInterval, sdkTimeout>>
       ELSE /\ checkInterval' = TRUE
            /\ sdkTimeout' = TRUE
            /\ UNCHANGED <<isLoading, runs>>
  /\ UNCHANGED <<appData, dataSource, attempts, pollTimer, clock>>
  /\ UNCHANGED <<pivotVars, monday, fallbackVars>>

\* The callback of the checkSDK interval, one period after the last
IntervalFires ==
  /\ checkInterval
  /\ clock < TimeoutPeriods
  /\ clock' = clock + 1
  /\ IF monday # "undefined"
       THEN checkInterval' = FALSE /\ StartFetchData
       ELSE UNCHANGED <<checkInterval, isLoading, runs>>
  /\ UNCHANGED <<appData, dataSource, attempts, pollTimer, sdkTimeout>>
  /\ UNCHANGED <<pivotVars, monday, fallbackVars>>

\* A period passes while the interval is cleared and the timeout pending.
PeriodPasses ==
  /\ ~checkInterval
  /\ sdkTimeout
  /\ clock < TimeoutPeriods
  /\ clock' = clock + 1
  /\ UNCHANGED <<checkInterval, sdkTimeout>>
  /\ UNCHANGED <<pivotVars, monday, appVars, fallbackVars>>

\* The callback of the timeout.  It is due with the last callback of the
\* interval, and either of the two may run first.
TimeoutFires ==
  /\ sdkTimeout
  /\ clock >= TimeoutPeriods - 1
  /\ sdkTimeout' = FALSE
  /\ checkInterval' = FALSE
  /\ StartFetchData
  /\ UNCHANGED <<appData, dataSource, attempts, pollTimer, clock>>
  /\ UNCHANGED <<pivotVars, monday, fallbackVars>>

InitVariant ==
  /\ NoPivot
  /\ monday \in MondayStates
  /\ NoApp
  /\ NoVariant
  /\ NoFallback

NextVariant ==
  \/ MondayLoads
  \/ MountVariant
  \/ IntervalFires
  \/ PeriodPasses
  \/ TimeoutFires
  \/ FetchDataStep

SpecVariant == InitVariant /\ [][NextVariant]_vars

----------------------------------------------------------------------------
(* The postMessage fallback of fetchPivotData *)

\* setTimeout(..., 10000)
FallbackTimeoutMs == 10000

\* setTimeout(checkSDK, 100)
CheckMs == 100

\* The calls of checkSDK that precede the timeout
ChecksBeforeTimeout == FallbackTimeoutMs \div CheckMs

\* resolve and reject of a promise: the first to be called settles it.
Settle(p, outcome) == IF p = "pending" THEN outcome ELSE p

\* checkSDK(), called with the timeout t and the listener l as they are: it
\* calls monday.api when the SDK is there and sets a timer for itself when
\* not.  The calls are counted up to the one the timeout is due with.
checkSDK(t, l) ==
  /\ checks' = IF checks < ChecksBeforeTimeout THEN checks + 1 ELSE checks
  /\ IF isMondaySDKAvailable(monday)
       THEN /\ timeout' = FALSE
            /\ listener' = FALSE
            /\ checkTimer' = FALSE
            /\ apiCalls' = apiCalls + 1
            /\ apiPending' = apiPending + 1
       ELSE /\ timeout' = t
            /\ listener' = l
            /\ checkTimer' = TRUE
            /\ UNCHANGED <<apiCalls, apiPending>>

\* new Promise(executor): the timeout is set, the listener added, the
\* request posted and checkSDK() called.
StartFallback ==
  /\ promise = "none"
  /\ promise' = "pending"
  /\ checkSDK(TRUE, TRUE)
  /\ UNCHANGED <<pivotVars, monday, appVars, variantVars>>

\* setTimeout(checkSDK, 100) fires
CheckTimerFires ==
  /\ checkTimer
  /\ checkSDK(timeout, listener)
  /\ UNCHANGED promise
  /\ UNCHANGED <<pivotVars, monday, appVars, variantVars>>

\* The callback of the 10-second timeout: reject(new Error(...)).  It is due
\* once the calls of checkSDK before it have run.
FallbackTimeoutFires ==
  /\ timeout
  /\ checks >= ChecksBeforeTimeout
  /\ timeout' = FALSE
  /\ promise' = Settle(promise, "rejected")
  /\ UNCHANGED <<listener, checkTimer, checks, apiCalls, apiPending>>
  /\ UNCHANGED <<pivotVars, monday, appVars, variantVars>>

\* messageHandler receives a BOARD_DATA_RESPONSE message: with a list of
\* items it resolves, with data that is no list the transformation throws
\* and it rejects.
MessageArrives ==
  /\ listener
  /\ timeout' = FALSE
  /\ listener' = FALSE
  /\ \E outcome \in {"resolved", "rejected"} :
       promise' = Settle(promise, outcome)
  /\ UNCHANGED <<checkTimer, checks, apiCalls, apiPending>>
  /\ UNCHANGED <<pivotVars, monday, appVars, variantVars>>

\* The promise of monday.api settles: then() resolves with the items of the
\* board or rejects when there is none, catch() rejects.
ApiSettles ==
  /\ apiPending > 0
  /\ apiPending' = apiPending - 1
  /\ \E outcome \in {"resolved", "rejected"} :
       promise' = Settle(promise, outcome)
  /\ UNCHANGED <<timeout, listener, checkTimer, checks, apiCalls>>
  /\ UNCHANGED <<pivotVars, monday, appVars, variantVars>>

\* fetchPivotData reaches the fallback when window.monday.api was no function
\* at its start.
InitFallback ==
  /\ NoPivot
  /\ monday \in {"undefined", "object"}
  /\ NoApp
  /\ NoVariant
  /\ NoFallback

NextFallback ==
  \/ MondayLoads
  \/ StartFallback
  \/ CheckTimerFires
  \/ FallbackTimeoutFires
  \/ MessageArrives
  \/ ApiSettles

SpecFallback == InitFallback /\ [][NextFallback]_vars

----------------------------------------------------------------------------
(* Vocabulary of the properties *)

Returned == pc = "done"

SeqRange(seq) == { seq[k] : k \in 1..Len(seq) }

\* The key of a record on an axis, as the engine derives it
GroupKey(item, fields) == join(FieldValues(item, fields), Separator)

\* The positions of the input records that belong to cell (i, j)
CellIndices(i, j) ==
  { k \in 1..Len(data) :
      /\ GroupKey(data[k], config.rows) = result.rowHeaders[i]
      /\ GroupKey(data[k], config.columns) = result.columnHeaders[j] }

\* The input records at the positions of S among 1..n, in input order
RECURSIVE ItemsAt(_, _)
ItemsAt(S, n) ==
  IF n = 0 THEN <<>>
  ELSE IF n \in S THEN Append(ItemsAt(S, n - 1), data[n])
  ELSE ItemsAt(S, n - 1)

\* The positions (i, j) of the cells of the result
CellPositions ==
  (1..Len(result.rowHeaders)) \X (1..Len(result.columnHeaders))

\* Lexicographic order of strings by code unit, first character first
RECURSIVE LexLess(_, _)
LexLess(x, y) ==
  IF Len(y) = 0 THEN FALSE
  ELSE IF Len(x) = 0 THEN TRUE
  ELSE IF x[1] = y[1] THEN LexLess(Tail(x), Tail(y))
  ELSE CodeUnit[x[1]] < CodeUnit[y[1]]

StrictlyAscending(labels) ==
  \A k \in 1..(Len(labels) - 1) : LexLess(labels[k], labels[k + 1])

----------------------------------------------------------------------------
(* Properties *)

\* C1: for a non-empty record list, each cell data[i][j] is the aggregation of
\* exactly the input records whose row key is rowHeaders[i] and whose column
\* key is columnHeaders[j], no other record contributing and none left out.
C1_CellAggregatesItsSubset ==
  (Returned /\ Len(data) > 0) =>
    \A p \in CellPositions :
      result.data[p[1]][p[2]] =
        aggregateValues(ItemsAt(CellIndices(p[1], p[2]), Len(data)),
                        config.values, AggregationOf(config))

\* A cell that aggregates two of three records beside a cell with none.
C1_Witness ==
  /\ Returned
  /\ Len(data) = 3
  /\ config.values # <<>>
  /\ \E p \in CellPositions : Cardinality(CellIndices(p[1], p[2])) = 2
  /\ \E p \in CellPositions : CellIndices(p[1], p[2]) = {}

\* C2: for a non-empty record list, rowHeaders and columnHeaders are strictly
\* ascending in the lexicographic order of strings (numeric field values are
\* compared by their string forms), hence free of duplicates.
C2_HeadersStrictlyAscending ==
  (Returned /\ Len(data) > 0) =>
    /\ StrictlyAscending(result.rowHeaders)
    /\ StrictlyAscending(result.columnHeaders)

\* The numeric keys 10 and 2 come out in string order, "10" before "2".
C2_Witness ==
  /\ Returned
  /\ Len(result.rowHeaders) = 3
  /\ result.rowHeaders[1] = <<"1", "0">>
  /\ result.rowHeaders[2] = <<"2">>
  /\ Len(result.columnHeaders) = 2

\* C3: the set of rowHeaders is the set of the row keys of the input records
\* and the set of columnHeaders the set of their column keys.
C3_HeadersAreTheKeys ==
  (Returned /\ Len(data) > 0) =>
    /\ SeqRange(result.rowHeaders) =
         { GroupKey(data[k], config.rows) : k \in 1..Len(data) }
    /\ SeqRange(result.columnHeaders) =
         { GroupKey(data[k], config.columns) : k \in 1..Len(data) }

\* Three records with two row keys and two column keys.
C3_Witness ==
  /\ Returned
  /\ Len(data) = 3
  /\ Len(config.rows) = 2
  /\ Len(result.rowHeaders) = 2
  /\ Len(result.columnHeaders) = 2

\* C4: the result is rectangular: data has one row per row header and every
\* row has one cell per column header, for every input.
C4_Rectangular ==
  Returned =>
    /\ Len(result.data) = Len(result.rowHeaders)
    /\ \A i \in 1..Len(result.data) :
         Len(result.data[i]) = Len(result.columnHeaders)

\* A matrix of three rows and two columns.
C4_Witness ==
  /\ Returned
  /\ Len(result.data) = 3
  /\ Len(result.columnHeaders) = 2
  /\ Len(result.data[3]) = 2

\* C5: for an empty record list the result is an empty matrix with empty
\* rowHeaders and empty columnHeaders, whatever the configuration.
C5_EmptyInputEmptyResult ==
  (Returned /\ Len(data) = 0) =>
    /\ result.data = <<>>
    /\ result.rowHeaders = <<>>
    /\ result.columnHeaders = <<>>

\* No record, with row, column and value fields configured and avg asked for.
C5_Witness ==
  /\ Returned
  /\ Len(data) = 0
  /\ config.rows = <<"s", "o">>
  /\ config.columns = <<"o">>
  /\ config.values = <<"b">>
  /\ AggregationOf(config) = "avg"

\* C6: a cell whose record subset is empty is exactly 0 under every
\* aggregation: not NaN under avg, not an infinity under min or max.
C6_EmptySubsetCellIsZero ==
  (Returned /\ Len(data) > 0) =>
    \A p \in CellPositions :
      CellIndices(p[1], p[2]) = {} => result.data[p[1]][p[2]] = Zero

\* An empty cell under avg with a value field configured.
C6_Witness ==
  /\ Returned
  /\ AggregationOf(config) = "avg"
  /\ config.values = <<"b">>
  /\ \E p \in CellPositions :
       CellIndices(p[1], p[2]) = {} /\ result.data[p[1]][p[2]] = Zero
  /\ \E p \in CellPositions : result.data[p[1]][p[2]] # Zero

\* The sum of the cells of a matrix of integers
RECURSIVE SumCells(_)
SumCells(cells) ==
  IF Len(cells) = 0 THEN 0 ELSE cells[1][1] + SumCells(Tail(cells))

RECURSIVE SumMatrix(_)
SumMatrix(matrix) ==
  IF Len(matrix) = 0 THEN 0 ELSE SumCells(matrix[1]) + SumMatrix(Tail(matrix))

AllCellsIntegers ==
  \A i \in 1..Len(result.data) :
    \A j \in 1..Len(result.data[i]) : result.data[i][j][2] = 1

\* C7: under count, the cells of the matrix add up to the number of input
\* records times the number of value fields.
C7_CountTotal ==
  (Returned /\ AggregationOf(config) = "count") =>
    /\ AllCellsIntegers
    /\ SumMatrix(result.data) = Len(data) * Len(config.values)

\* Three records and two value fields counted over a matrix of at least two
\* rows and two columns.
C7_Witness ==
  /\ Returned
  /\ AggregationOf(config) = "count"
  /\ Len(data) = 3
  /\ Len(config.values) = 2
  /\ Len(result.rowHeaders) >= 2
  /\ Len(result.columnHeaders) >= 2
  /\ SumMatrix(result.data) = 6

\* The text a field contributes to a key: the string form of a present value,
\* and absentText for an absent one
ElementText(value, absentText) ==
  IF value.t = "undefined" THEN absentText ELSE JSToString(value)

\* The texts of the fields in field order with the separator between them
RECURSIVE KeyText(_, _, _)
KeyText(item, fields, absentText) ==
  IF Len(fields) = 0 THEN <<>>
  ELSE IF Len(fields) = 1 THEN ElementText(item[fields[1]], absentText)
  ELSE ElementText(item[fields[1]], absentText) \o Separator
         \o KeyText(item, Tail(fields), absentText)

LacksField(item, fields) ==
  \E k \in 1..Len(fields) : item[fields[k]].t = "undefined"

UndefinedText == <<"u", "n", "d", "e", "f", "i", "n", "e", "d">>

\* The record at position k is grouped, on both axes, under the keys in which
\* an absent field reads absentText.
GroupedUnder(k, absentText) ==
  /\ KeyText(data[k], config.rows, absentText) \in SeqRange(result.rowHeaders)
  /\ KeyText(data[k], config.columns, absentText)
       \in SeqRange(result.columnHeaders)
  /\ matchesGroup(data[k], config.rows,
                  KeyText(data[k], config.rows, absentText))
  /\ matchesGroup(data[k], config.columns,
                  KeyText(data[k], config.columns, absentText))

\* C9 as stated: a field absent from a record contributes the string
\* "undefined" to the record's group key.
C9_AbsentFieldReadsUndefined ==
  Returned =>
    \A k \in 1..Len(data) :
      (LacksField(data[k], config.rows) \/ LacksField(data[k], config.columns))
        => GroupedUnder(k, UndefinedText)

\* C9 as amended: a field absent from a record contributes the empty string
\* to the record's group key, so the record {s: "A"} has the key "A - " on
\* the fields s, o.
C9_AbsentFieldReadsEmpty ==
  Returned =>
    /\ \A k \in 1..Len(data) :
         (LacksField(data[k], config.rows)
            \/ LacksField(data[k], config.columns))
           => GroupedUnder(k, <<>>)
    /\ (config.rows = <<"s", "o">>
          /\ \E k \in 1..Len(data) :
               data[k].s = Str(<<"A">>) /\ data[k].o = Undefined)
         => <<"A", " ", "-", " ">> \in SeqRange(result.rowHeaders)

\* The record {s: "A"} grouped by the row fields s, o and the column field o.
C9_Witness ==
  /\ Returned
  /\ config.rows = <<"s", "o">>
  /\ config.columns = <<"o">>
  /\ \E k \in 1..Len(data) :
       data[k].s = Str(<<"A">>) /\ data[k].o = Undefined
  /\ <<"A", " ", "-", " ">> \in SeqRange(result.rowHeaders)
  /\ <<>> \in SeqRange(result.columnHeaders)

HasRecord(s, o) ==
  \E k \in 1..Len(data) : data[k].s = s /\ data[k].o = o

\* C10: a record's group key on an axis is the string forms of its values for
\* the axis's fields, in the configured field order, joined by " - ": the
\* record {s: "A", o: "X"} has the key "A - X" on the fields s, o and the key
\* "X - A" on the fields o, s.
C10_KeyJoinsFieldsInOrder ==
  (Returned /\ Len(data) > 0) =>
    /\ SeqRange(result.rowHeaders) =
         { KeyText(data[k], config.rows, <<>>) : k \in 1..Len(data) }
    /\ SeqRange(result.columnHeaders) =
         { KeyText(data[k], config.columns, <<>>) : k \in 1..Len(data) }
    /\ (config.rows = <<"s", "o">> /\ HasRecord(Str(<<"A">>), Str(<<"X">>)))
         => <<"A", " ", "-", " ", "X">> \in SeqRange(result.rowHeaders)
    /\ (config.rows = <<"o", "s">> /\ HasRecord(Str(<<"A">>), Str(<<"X">>)))
         => <<"X", " ", "-", " ", "A">> \in SeqRange(result.rowHeaders)

\* The record {s: "A", o: "X"} keyed by o, s beside a record with a numeric s.
C10_Witness ==
  /\ Returned
  /\ config.rows = <<"o", "s">>
  /\ HasRecord(Str(<<"A">>), Str(<<"X">>))
  /\ HasRecord(Num(2), Str(<<"X">>))
  /\ <<"X", " ", "-", " ", "A">> \in SeqRange(result.rowHeaders)
  /\ <<"X", " ", "-", " ", "2">> \in SeqRange(result.rowHeaders)

\* The records at positions k and m are in the same group on the axis of
\* fields: one label of the axis is matched by both.
SameGroup(k, m, fields, labels) ==
  \E i \in 1..Len(labels) :
    /\ matchesGroup(data[k], fields, labels[i])
    /\ matchesGroup(data[m], fields, labels[i])

SameKeyText(k, m, fields) ==
  KeyText(data[k], fields, <<>>) = KeyText(data[m], fields, <<>>)

\* C11: two records are in the same group on an axis exactly when their
\* joined key strings are equal, whatever their field values: a value that
\* contains " - ", or the number 1 beside the string "1", share a group.
C11_GroupIsKeyEquality ==
  Returned =>
    \A k, m \in 1..Len(data) :
      /\ SameGroup(k, m, config.rows, result.rowHeaders)
           <=> SameKeyText(k, m, config.rows)
      /\ SameGroup(k, m, config.columns, result.columnHeaders)
           <=> SameKeyText(k, m, config.columns)

\* {s: 1, o: "X - Y"} and {s: "1 - X", o: "Y"} in one row group on s, o but
\* in two column groups on s, where the number 1 and the string "1" share one.
C11_Witness ==
  /\ Returned
  /\ config.rows = <<"s", "o">>
  /\ config.columns = <<"s">>
  /\ Len(data) = 3
  /\ data[1].s = Num(1) /\ data[1].o = Str(<<"X", " ", "-", " ", "Y">>)
  /\ data[2].s = Str(<<"1", " ", "-", " ", "X">>) /\ data[2].o = Str(<<"Y">>)
  /\ data[3].s = Str(<<"1">>)
  /\ SameGroup(1, 2, config.rows, result.rowHeaders)
  /\ ~SameGroup(1, 2, config.columns, result.columnHeaders)
  /\ SameGroup(1, 3, config.columns, result.columnHeaders)
  /\ ~SameGroup(1, 3, config.rows, result.rowHeaders)
  /\ Len(result.rowHeaders) = 2
  /\ Len(result.columnHeaders) = 2

\* The entries of the value list of cell (i, j): one per record of the cell's
\* subset and position of the value field list
CellEntries(i, j) == CellIndices(i, j) \X (1..Len(config.values))

EntryField(e) == data[e[1]][config.values[e[2]]]

\* The number an entry stands for.  No string of SampleRecords starts with a
\* numeral, so only fields that hold a number stand for one; every other
\* entry stands for 0.
EntryValue(e) == IF EntryField(e).t = "number" THEN EntryField(e).v[1] ELSE 0

RECURSIVE SumEntries(_)
SumEntries(S) ==
  IF S = {} THEN 0
  ELSE LET e == CHOOSE x \in S : TRUE
       IN  EntryValue(e) + SumEntries(S \ {e})

Example1Data ==
  << Rec(Str(<<"A">>), Str(<<"X">>), Num(10)),
     Rec(Str(<<"A">>), Str(<<"Y">>), Num(20)),
     Rec(Str(<<"B">>), Str(<<"X">>), Num(5)) >>

Example1Fields ==
  /\ data = Example1Data
  /\ config.rows = <<"s">>
  /\ config.columns = <<"o">>
  /\ config.values = <<"b">>

Matrix2x2(a, b, c, d) ==
  << <<Int2Num(a), Int2Num(b)>>, <<Int2Num(c), Int2Num(d)>> >>

\* C12: under sum, a cell with a non-empty subset is the arithmetic sum, over
\* the records of the subset and the value fields, of the fields' numeric
\* values; example 1 gives the labels [A, B], [X, Y] and [[10, 20], [5, 0]].
C12_SumOfSubset ==
  (Returned /\ AggregationOf(config) = "sum") =>
    /\ \A p \in CellPositions :
         CellIndices(p[1], p[2]) # {} =>
           result.data[p[1]][p[2]] = Int2Num(SumEntries(CellEntries(p[1], p[2])))
    /\ Example1Fields =>
         /\ result.rowHeaders = << <<"A">>, <<"B">> >>
         /\ result.columnHeaders = << <<"X">>, <<"Y">> >>
         /\ result.data = Matrix2x2(10, 20, 5, 0)

\* A cell that sums two value fields of two records.
C12_Witness ==
  /\ Returned
  /\ AggregationOf(config) = "sum"
  /\ Len(config.values) = 2
  /\ \E p \in CellPositions :
       /\ Cardinality(CellEntries(p[1], p[2])) = 4
       /\ result.data[p[1]][p[2]] = Int2Num(17)

\* C13: under count, each cell is the length of its value list: the number
\* of records of its subset times the number of value fields, equal records
\* and equal values each counted, whatever the value fields hold; example 2
\* gives [[1, 1], [1, 0]].
C13_CountIsListLength ==
  (Returned /\ AggregationOf(config) = "count") =>
    /\ \A p \in CellPositions :
         result.data[p[1]][p[2]] =
           Int2Num(Cardinality(CellIndices(p[1], p[2])) * Len(config.values))
    /\ Example1Fields => result.data = Matrix2x2(1, 1, 1, 0)

\* The same record three times, counted three times.
C13_Witness ==
  /\ Returned
  /\ AggregationOf(config) = "count"
  /\ config.values = <<"b">>
  /\ Len(data) = 3
  /\ data[1] = data[2] /\ data[2] = data[3]
  /\ data[1].b = Num(10)
  /\ result.data = << <<Int2Num(3)>> >>

NonEmptyValueList(p) ==
  CellIndices(p[1], p[2]) # {} /\ Len(config.values) > 0

\* C14: under avg, a cell with a non-empty subset and at least one value
\* field is the sum of its value list divided by the length of the list:
\* the cell times that length is the sum.
C14_AvgIsSumOverLength ==
  (Returned /\ AggregationOf(config) = "avg") =>
    \A p \in CellPositions :
      NonEmptyValueList(p) =>
        LET cell == result.data[p[1]][p[2]]
            entries == CellEntries(p[1], p[2])
        IN  /\ IsFinite(cell)
            /\ cell[1] * Cardinality(entries) = SumEntries(entries) * cell[2]

\* An average that is not an integer: 7 over two entries.
C14_Witness ==
  /\ Returned
  /\ AggregationOf(config) = "avg"
  /\ \E p \in CellPositions :
       /\ Cardinality(CellEntries(p[1], p[2])) = 2
       /\ SumEntries(CellEntries(p[1], p[2])) = 7
       /\ result.data[p[1]][p[2]] = <<7, 2>>

EntryValues(S) == { EntryValue(e) : e \in S }

\* C15: under min (max), a cell with a non-empty subset and at least one
\* value field is the smallest (largest) element of its value list: an
\* element of the list that no element is below (above).
C15_MinMaxOfList ==
  (Returned /\ AggregationOf(config) \in {"min", "max"}) =>
    \A p \in CellPositions :
      NonEmptyValueList(p) =>
        LET cell == result.data[p[1]][p[2]]
            list == EntryValues(CellEntries(p[1], p[2]))
        IN  /\ cell[2] = 1
            /\ cell[1] \in list
            /\ AggregationOf(config) = "min" => \A v \in list : cell[1] <= v
            /\ AggregationOf(config) = "max" => \A v \in list : cell[1] >= v

\* The minimum 5 of the three values 10, 20 and 5.
C15_Witness ==
  /\ Returned
  /\ AggregationOf(config) = "min"
  /\ \E p \in CellPositions :
       /\ EntryValues(CellEntries(p[1], p[2])) = {10, 20, 5}
       /\ result.data[p[1]][p[2]] = Int2Num(5)

\* The entries of a set whose field is absent or holds no number, and the
\* numbers the other entries hold
BlankEntries(S) == { e \in S : EntryField(e).t # "number" }

RECURSIVE SumNumbers(_)
SumNumbers(S) ==
  IF S = {} THEN 0
  ELSE LET e == CHOOSE x \in S : TRUE
       IN  EntryField(e).v[1] + SumNumbers(S \ {e})

\* C16: a value field that is absent or holds a non-numeric value enters the
\* value list as 0: it adds nothing to sum and to the numerator of avg,
\* counts as one value for count and for the denominator of avg, and takes
\* part in min and max as 0.
C16_BlankValueIsZero ==
  Returned =>
    \A p \in CellPositions :
      LET cell == result.data[p[1]][p[2]]
          entries == CellEntries(p[1], p[2])
          blank == BlankEntries(entries)
          numbers == { EntryField(e).v[1] : e \in entries \ blank } \cup {0}
          kind == AggregationOf(config)
      IN  blank # {} =>
            /\ kind = "sum" => cell = Int2Num(SumNumbers(entries \ blank))
            /\ kind = "count" => cell = Int2Num(Cardinality(entries))
            /\ kind = "avg" =>
                 /\ IsFinite(cell)
                 /\ cell[1] * Cardinality(entries)
                      = SumNumbers(entries \ blank) * cell[2]
            /\ kind = "min" =>
                 /\ cell[2] = 1 /\ cell[1] \in numbers
                 /\ \A v \in numbers : cell[1] <= v
            /\ kind = "max" =>
                 /\ cell[2] = 1 /\ cell[1] \in numbers
                 /\ \A v \in numbers : cell[1] >= v

\* One cell over b of {b: 10}, {b: "n/a"} and a record without b: under avg
\* it is 10 / 3.
C16_Witness ==
  /\ Returned
  /\ AggregationOf(config) = "avg"
  /\ config.values = <<"b">>
  /\ Len(data) = 3
  /\ data[1].b = Num(10)
  /\ data[2].b = Str(<<"n", "/", "a">>)
  /\ data[3].b = Undefined
  /\ result.data = << << <<10, 3>> >> >>

\* The configuration with the same field lists and the aggregation given
WithAggregation(cfg, aggregation) ==
  [rows |-> cfg.rows, columns |-> cfg.columns, values |-> cfg.values,
   aggregation |-> aggregation]

AggregationOmitted == "aggregation" \notin DOMAIN config

\* C17: without an aggregation in the configuration the result is the one
\* of aggregation = sum, for every record list and field configuration.
C17_DefaultIsSum ==
  (Returned /\ AggregationOmitted) =>
    /\ result = createPivotTable(data, WithAggregation(config, "sum"))
    /\ \A p \in CellPositions :
         NonEmptyValueList(p) =>
           result.data[p[1]][p[2]] = Int2Num(SumEntries(CellEntries(p[1], p[2])))

\* No aggregation configured, and a cell that differs from its count, its
\* average, its minimum and its maximum.
C17_Witness ==
  /\ Returned
  /\ AggregationOmitted
  /\ Len(data) = 3
  /\ result # createPivotTable(data, WithAggregation(config, "count"))
  /\ result # createPivotTable(data, WithAggregation(config, "avg"))
  /\ result # createPivotTable(data, WithAggregation(config, "min"))
  /\ result # createPivotTable(data, WithAggregation(config, "max"))

AxisIndices(fields, label) ==
  { k \in 1..Len(data) : KeyText(data[k], fields, <<>>) = label }

\* C20: with no row field (no column field) and at least one record, the
\* axis has the one label "", every record belongs to it, and the matrix has
\* one row (one column) that aggregates by the other axis alone.
C20_EmptyFieldListIsOneGroup ==
  (Returned /\ Len(data) > 0) =>
    /\ config.rows = <<>> =>
         /\ result.rowHeaders = << <<>> >>
         /\ Len(result.data) = 1
         /\ \A k \in 1..Len(data) : matchesGroup(data[k], config.rows, <<>>)
         /\ \A j \in 1..Len(result.columnHeaders) :
              result.data[1][j] =
                aggregateValues(
                  ItemsAt(AxisIndices(config.columns, result.columnHeaders[j]),
                          Len(data)),
                  config.values, AggregationOf(config))
    /\ config.columns = <<>> =>
         /\ result.columnHeaders = << <<>> >>
         /\ \A i \in 1..Len(result.data) : Len(result.data[i]) = 1
         /\ \A k \in 1..Len(data) : matchesGroup(data[k], config.columns, <<>>)
         /\ \A i \in 1..Len(result.rowHeaders) :
              result.data[i][1] =
                aggregateValues(
                  ItemsAt(AxisIndices(config.rows, result.rowHeaders[i]),
                          Len(data)),
                  config.values, AggregationOf(config))

\* Three records with no row field: one row of two columns summing b.
C20_Witness ==
  /\ Returned
  /\ config.rows = <<>>
  /\ config.columns = <<"o">>
  /\ config.values = <<"b">>
  /\ AggregationOf(config) = "sum"
  /\ data = Example1Data
  /\ result.rowHeaders = << <<>> >>
  /\ result.data = << <<Int2Num(15), Int2Num(20)>> >>

\* C21: with no value field, a cell whose record subset is not empty
\* aggregates an empty value list: 0 under sum and count, NaN under avg,
\* +Infinity under min and -Infinity under max; the return of 0 for an empty
\* subset does not apply to it.
C21_EmptyValueList ==
  (Returned /\ config.values = <<>>) =>
    \A p \in CellPositions :
      CellIndices(p[1], p[2]) # {} =>
        LET cell == result.data[p[1]][p[2]]
            kind == AggregationOf(config)
        IN  /\ kind = "sum" => cell = Zero
            /\ kind = "count" => cell = Zero
            /\ kind = "avg" => cell = NaN
            /\ kind = "min" => cell = PosInfinity
            /\ kind = "max" => cell = NegInfinity

\* No value field under min: a cell with records is +Infinity beside a cell
\* without records, which is 0.
C21_Witness ==
  /\ Returned
  /\ config.values = <<>>
  /\ AggregationOf(config) = "min"
  /\ \E p \in CellPositions :
       CellIndices(p[1], p[2]) # {} /\ result.data[p[1]][p[2]] = PosInfinity
  /\ \E p \in CellPositions :
       CellIndices(p[1], p[2]) = {} /\ result.data[p[1]][p[2]] = Zero

\* The cells whose filter accepts the record at position k
CellsOf(k) ==
  { p \in CellPositions :
      /\ matchesGroup(data[k], config.rows, result.rowHeaders[p[1]])
      /\ matchesGroup(data[k], config.columns, result.columnHeaders[p[2]]) }

\* C23: the cells partition the input: every record of a non-empty input is
\* in the filtered subset of exactly one cell.
C23_CellsPartitionTheInput ==
  (Returned /\ Len(data) > 0) =>
    \A k \in 1..Len(data) : Cardinality(CellsOf(k)) = 1

\* Two different records in one cell and a third in a cell of its own.
C23_Witness ==
  /\ Returned
  /\ Len(data) = 3
  /\ config.rows = <<"s">>
  /\ config.columns = <<"o">>
  /\ data[1] # data[2]
  /\ CellsOf(1) = CellsOf(2)
  /\ Cardinality(CellsOf(1)) = 1
  /\ Cardinality(CellsOf(3)) = 1
  /\ CellsOf(3) # CellsOf(1)

\* C24: no row and no column of the matrix is made of empty subsets only:
\* every row label has a column, and every column label a row, whose cell
\* subset is not empty.
C24_NoEmptyRowOrColumn ==
  Returned =>
    /\ \A i \in 1..Len(result.rowHeaders) :
         \E j \in 1..Len(result.columnHeaders) : CellIndices(i, j) # {}
    /\ \A j \in 1..Len(result.columnHeaders) :
         \E i \in 1..Len(result.rowHeaders) : CellIndices(i, j) # {}

\* A 3 x 3 matrix with one record in each row and in each column.
C24_Witness ==
  /\ Returned
  /\ Len(result.rowHeaders) = 3
  /\ Len(result.columnHeaders) = 3
  /\ \A i \in 1..3 :
       Cardinality({ j \in 1..3 : CellIndices(i, j) # {} }) = 1

\* The buckets of a record list: the records of each (row key, column key)
\* pair that occurs, in input order, built in one pass over the list
RECURSIVE Buckets(_, _)
Buckets(items, cfg) ==
  IF Len(items) = 0 THEN [pair \in {} |-> <<>>]
  ELSE LET before == Buckets(SubSeq(items, 1, Len(items) - 1), cfg)
           item == items[Len(items)]
           pair == <<GroupKey(item, cfg.rows), GroupKey(item, cfg.columns)>>
       IN  [q \in (DOMAIN before) \cup {pair} |->
             IF q = pair
               THEN IF q \in DOMAIN before THEN Append(before[q], item)
                    ELSE <<item>>
               ELSE before[q]]

\* The strings of a set in ascending order
Ascending(S) ==
  [i \in 1..Cardinality(S) |->
    CHOOSE x \in S : Cardinality({ y \in S : LexLess(y, x) }) = i - 1]

\* The table of an implementation that buckets the records first and then
\* aggregates each bucket
BucketedPivotTable(items, cfg) ==
  LET buckets == Buckets(items, cfg)
      rowHeaders == Ascending({ q[1] : q \in DOMAIN buckets })
      columnHeaders == Ascending({ q[2] : q \in DOMAIN buckets })
  IN  [data |->
         [i \in 1..Len(rowHeaders) |->
           [j \in 1..Len(columnHeaders) |->
             LET pair == <<rowHeaders[i], columnHeaders[j]>>
             IN  IF pair \in DOMAIN buckets
                   THEN aggregateValues(buckets[pair], cfg.values,
                                        AggregationOf(cfg))
                   ELSE Zero]],
       rowHeaders |-> rowHeaders,
       columnHeaders |-> columnHeaders]

\* C22: an implementation that first buckets the records by (row key, column
\* key) pair and aggregates each bucket returns the same rowHeaders,
\* columnHeaders and matrix as the scan of the whole list for each cell.
C22_BucketingGivesTheSameTable ==
  Returned => result = BucketedPivotTable(data, config)

\* A bucket of two records, a bucket of one and a pair without bucket.
C22_Witness ==
  /\ Returned
  /\ Len(data) = 3
  /\ AggregationOf(config) = "avg"
  /\ config.values = <<"b">>
  /\ \E q \in DOMAIN Buckets(data, config) :
       Len(Buckets(data, config)[q]) = 2
  /\ \E p \in CellPositions :
       <<result.rowHeaders[p[1]], result.columnHeaders[p[2]]>>
         \notin DOMAIN Buckets(data, config)
  /\ result = BucketedPivotTable(data, config)

\* The record list in the order given by a permutation of its positions
Permuted(items, order) == [k \in 1..Len(items) |-> items[order[k]]]

\* Every value the aggregation reads is an integer
IntegerValued(items, valueFields) ==
  \A k \in 1..Len(FlatValues(items, valueFields)) :
    FlatValues(items, valueFields)[k][2] = 1

\* C25: the result does not depend on the order of the input records: with
\* integer values, every permutation of the record list gives the same
\* rowHeaders, columnHeaders and matrix, whichever of sum, count, avg, min and
\* max the configuration names.
C25_RecordOrderIsIrrelevant ==
  (Returned /\ IntegerValued(data, config.values)) =>
    \A order \in Permutations(1..Len(data)) :
      createPivotTable(Permuted(data, order), config) = result

\* Three records met in descending key order, two of them in one cell.
C25_Witness ==
  /\ Returned
  /\ Len(data) = 3
  /\ config.rows = <<"s">>
  /\ config.columns = <<"o">>
  /\ config.values = <<"b">>
  /\ LexLess(GroupKey(data[2], config.rows), GroupKey(data[1], config.rows))
  /\ GroupKey(data[3], config.rows) = GroupKey(data[1], config.rows)
  /\ GroupKey(data[3], config.columns) = GroupKey(data[1], config.columns)
  /\ result = createPivotTable(Permuted(data, <<3, 2, 1>>), config)

\* The configuration with the row fields and the column fields exchanged
Swapped(cfg) == [cfg EXCEPT !.rows = cfg.columns, !.columns = cfg.rows]

\* C26: exchanging the row fields and the column fields transposes the
\* result: the new rowHeaders are the old columnHeaders, the new
\* columnHeaders the old rowHeaders, and the new data[j][i] is the old
\* data[i][j].
C26_SwapTransposes ==
  Returned =>
    LET swapped == createPivotTable(data, Swapped(config))
    IN  /\ swapped.rowHeaders = result.columnHeaders
        /\ swapped.columnHeaders = result.rowHeaders
        /\ Len(swapped.data) = Len(swapped.rowHeaders)
        /\ \A j \in 1..Len(swapped.data) :
             /\ Len(swapped.data[j]) = Len(swapped.columnHeaders)
             /\ \A i \in 1..Len(swapped.data[j]) :
                  swapped.data[j][i] = result.data[i][j]

\* A 2 x 3 matrix that is not symmetric.
C26_Witness ==
  /\ Returned
  /\ Len(result.rowHeaders) = 2
  /\ Len(result.columnHeaders) = 3
  /\ AggregationOf(config) = "sum"
  /\ result.data[1][2] # result.data[2][1]
  /\ createPivotTable(data, Swapped(config)).rowHeaders = result.columnHeaders
  /\ Len(createPivotTable(data, Swapped(config)).data) = 3

\* C27: when the data fetch fails (monday.initialize, monday.get('context'),
\* the import or fetchPivotData rejects), data still holds the sample records
\* and dataSource is 'sample'; dataSource is 'monday' only when data has been
\* replaced by the fetched records.
C27_FailedFetchKeepsSample ==
  /\ \A i \in 1..Len(runs) :
       runs[i].error # "none" =>
         appData = "sampleData" /\ dataSource = "sample"
  /\ dataSource = "monday" => appData \in FetchedData

\* fetchPivotData has rejected after the SDK was initialised and the context
\* read, and fetchData has returned.
C27_Witness ==
  /\ Len(runs) = 1
  /\ runs[1] = [pc |-> "done", error |-> "fetchPivotData"]
  /\ monday = "sdk"
  /\ attempts < maxAttempts
  /\ appData = "sampleData"
  /\ dataSource = "sample"
  /\ isLoading = FALSE

\* fetchData is started in this step
FetchDataStarts == Len(runs') = Len(runs) + 1

\* waitForSDKAndFetch runs in this step
Polls == attempts' = attempts + 1

\* C28: waitForSDKAndFetch starts fetchData exactly once per mount: at the
\* first poll that sees window.monday.api, or otherwise at the 50th poll; no
\* poll is scheduled once fetchData has been started.
C28_FetchStartsOnce ==
  /\ [](/\ Len(runs) <= 1
        /\ attempts <= maxAttempts
        /\ Len(runs) = 1 => ~pollTimer
        /\ (attempts > 0 /\ Len(runs) = 0) =>
             pollTimer /\ attempts < maxAttempts)
  /\ [][/\ FetchDataStarts =>
             Polls /\ (isMondaySDKAvailable(monday) \/ attempts' = maxAttempts)
        /\ (Polls /\ isMondaySDKAvailable(monday)) => FetchDataStarts
        /\ (Polls /\ attempts' = maxAttempts) => FetchDataStarts
        /\ Len(runs) = 1 => attempts' = attempts /\ ~pollTimer']_vars
  /\ <>(Len(runs) = 1)

\* The SDK never loaded: fetchData was started by the 50th poll.
C28_Witness ==
  /\ attempts = maxAttempts
  /\ monday # "sdk"
  /\ Len(runs) = 1
  /\ runs[1].pc = "import"
  /\ ~pollTimer

\* C29: in the variant of App that waits with an interval, fetchData starts
\* exactly once per mount: when the interval detects window.monday, or at the
\* 5-second timeout, whichever comes first; the other of the two timers then
\* starts nothing.
C29_VariantFetchStartsOnce ==
  /\ Len(runs) <= 1
  /\ Len(runs) = 1 => ~checkInterval /\ ~sdkTimeout

\* The interval detected window.monday and started fetchData, which loaded
\* the records; the timeout started it again, and the second run failed.
C29_SecondFetchOverridesSource ==
  /\ Len(runs) = 2
  /\ clock < TimeoutPeriods
  /\ runs[1] = [pc |-> "done", error |-> "none"]
  /\ runs[2].error # "none"
  /\ appData = "mondayData"
  /\ dataSource = "sample"

\* The promise of the fallback has settled
Settled(p) == p \in {"resolved", "rejected"}

\* C30: once the promise of the postMessage fallback has settled, the
\* fallback is finished: the message listener is removed, no checkSDK poll is
\* scheduled, and no monday.api call is issued afterwards.
C30_SettledFallbackIsFinished ==
  [][/\ Settled(promise') => ~listener' /\ ~checkTimer'
     /\ Settled(promise) => apiCalls' = apiCalls]_vars

\* monday.api is outstanding although the promise was rejected by the
\* timeout, with the listener still registered when checkSDK found the SDK.
C30_ApiCallAfterTimeout ==
  /\ promise = "rejected"
  /\ checks = ChecksBeforeTimeout
  /\ apiCalls = 1
  /\ apiPending = 1
  /\ ~listener
  /\ ~checkTimer

====
